---- MODULE Spec2Model ----
(***************************************************************************)
(* The concurrent request-dispatch engine of http-load-tester: the two     *)
(* variants of LoadTester (src/main.py and src/NewerVersionMain2.py) and   *)
(* the raw_http_request function both of them call.                        *)
(*                                                                         *)
(* Text is modelled as a sequence of tokens (a token stands for a run of   *)
(* characters that the code never looks inside); bytes are sequences of    *)
(* byte tokens.                                                            *)
(***************************************************************************)
EXTENDS Integers, Sequences, FiniteSets, TLC

\* ------------------------------------------------------------------ bounds
\* The largest concurrency and total_requests a run is configured with, and
\* the largest number of chunks the peer sends before it closes.
MaxConcurrency == 2
MaxRequests == 4
MaxChunks == 2
\* Runs that pace their workers (interval > 0) or use TLS are explored up to
\* this many requests; plain unpaced runs up to MaxRequests.
SmallRequests == 2
\* The largest concurrency * total_requests of a run.
MaxWork == 8
\* run() is called at most MaxRuns times on one LoadTester.
MaxRuns == 2

\* ------------------------------------------------------- program constants
\* response[:200] in NewerVersionMain2.worker, and the [:3] of run's printout.
SampleLen == 200
PrintedSamples == 3

VARIABLES
    variant,         \* which source file the LoadTester comes from
    concurrency,     \* self.concurrency
    total_requests,  \* self.total_requests
    interval,        \* self.interval
    use_ssl,         \* self.use_ssl
    queue,           \* self.queue: the items not yet dequeued
    unfinished,      \* self.queue.unfinished_tasks
    lock,            \* self.lock: 0 when free, else the worker holding it
    success,         \* self.success
    errors,          \* self.errors
    responses,       \* self.responses (NewerVersionMain2 only)
    requests_total,  \* the module's Prometheus counter requests_total
    requests_failed, \* the module's Prometheus counter requests_failed
    runPc,           \* where run() is
    started,         \* how many worker threads run() has started
    reported,        \* what run() has printed: <<success, errors>> read so far
    pc,              \* pc[w]: where worker w is
    unit,            \* unit[w]: the item worker w dequeued in this iteration
    result,          \* result[w]: what raw_http_request returned to worker w
    tmp,             \* tmp[w]: the counter value worker w read for its +=
    anyOk,           \* some raw_http_request call of the run ended without exception
    call,            \* the raw_http_request call under study (request specification)
    recorded,        \* how many counting sections (with self.lock blocks) have completed
    calls,           \* how many times a worker has called raw_http_request
    resolvable,      \* whether the name of self.host resolves
    runs             \* how many times run() has been called

vars == <<variant, concurrency, total_requests, interval, use_ssl, queue,
          unfinished, lock, success, errors, responses, requests_total,
          requests_failed, runPc, started, reported, pc, unit, result, tmp,
          anyOk, call, recorded, calls, resolvable, runs>>

poolVars == <<variant, concurrency, total_requests, interval, use_ssl, queue,
              unfinished, lock, success, errors, responses, requests_total,
              requests_failed, runPc, started, reported, pc, unit, result, tmp,
              anyOk, recorded, calls, resolvable, runs>>

Variants == {"main", "v2"}
Workers == 1..MaxConcurrency

\* ------------------------------------------------------------------- text
Min(a, b) == IF a < b THEN a ELSE b

CRLF == "\r\n"

\* sep.join(lines): the lines, with sep between each two of them.
RECURSIVE Join(_, _)
Join(lines, sep) ==
    IF Len(lines) = 0 THEN <<>>
    ELSE IF Len(lines) = 1 THEN lines[1]
    ELSE lines[1] \o <<sep>> \o Join(Tail(lines), sep)

\* str.encode(): UTF-8. An ASCII token is its own bytes; the one non-ASCII
\* character of the model takes two bytes.
RECURSIVE Encode(_)
Encode(s) ==
    IF Len(s) = 0 THEN <<>>
    ELSE (IF Head(s) = "é" THEN <<"\\xc3", "\\xa9">> ELSE <<Head(s)>>)
         \o Encode(Tail(s))

\* bytes.decode(errors='ignore'): UTF-8, invalid bytes dropped.
RECURSIVE Decode(_)
Decode(b) ==
    IF Len(b) = 0 THEN <<>>
    ELSE IF Head(b) = "\\xc3" /\ Len(b) >= 2 /\ b[2] = "\\xa9"
         THEN <<"é">> \o Decode(Tail(Tail(b)))
    ELSE IF Head(b) \in {"\\xc3", "\\xa9", "\\xff"} THEN Decode(Tail(b))
    ELSE <<Head(b)>> \o Decode(Tail(b))

\* s.startswith(prefix)
StartsWith(s, prefix) ==
    Len(s) >= Len(prefix) /\ SubSeq(s, 1, Len(prefix)) = prefix

\* s[:n]
Prefix(s, n) == SubSeq(s, 1, Min(n, Len(s)))

\* -------------------------------------------------------- raw_http_request
USER_AGENTS(v) ==
    IF v = "main"
    THEN <<"Mozilla/5.0 (Windows NT 10.0; Win64; x64) Chrome/114.0.0.0",
           "Mozilla/5.0 (Macintosh; Intel Mac OS X 12_5) Safari/605.1.15",
           "Mozilla/5.0 (X11; Ubuntu; Linux x86_64; rv:114.0) Firefox/114.0">>
    ELSE <<"Mozilla/5.0 (Windows NT 10.0; Win64; x64)...",
           "Mozilla/5.0 (X11; Ubuntu; Linux x86_64; rv:114.0)...",
           "Mozilla/5.0 (Macintosh; Intel Mac OS X 12_5)...",
           "Mozilla/5.0 (Windows NT 6.1; WOW64)...",
           "Mozilla/5.0 (Linux; Android 10; SM-G973F)...",
           "Mozilla/5.0 (compatible; Googlebot/2.1; +http://www.google.com/bot.html)",
           "curl/7.79.1">>

\* The values random.choice(USER_AGENTS) can return.
get_random_user_agent(v) == {USER_AGENTS(v)[i] : i \in 1..Len(USER_AGENTS(v))}

\* The header lines of the loop `for k, v in headers.items()`; headers is the
\* mapping as the sequence of its <<key, value>> items, in its order.
header_lines(headers) == [i \in 1..Len(headers) |-> <<headers[i][1], ": ", headers[i][2]>>]

\* req_lines / request_lines as built before the join.
request_lines(method, path, host, ua, headers) ==
    << <<method, " ", path, " ", "HTTP/1.1">>,
       <<"Host: ", host>>,
       <<"User-Agent: ", ua>> >>
    \o header_lines(headers)
    \o << <<"Connection: close">> >>
    \o << <<>> >>

\* request_data = "\r\n".join(request_lines).encode()
request_data(method, path, host, ua, headers) ==
    Encode(Join(request_lines(method, path, host, ua, headers), CRLF))

\* What the network does to one call: whether create_connection, the TLS
\* handshake and sendall succeed, the chunks recv returns, and whether the
\* stream then ends (recv returns b"") or recv raises.
ChunkBytes == {"HTTP/1.1 200 OK", "Error:", "\\xff"}

RECURSIVE SeqsUpTo(_, _)
SeqsUpTo(S, n) ==
    IF n = 0 THEN {<<>>}
    ELSE LET shorter == SeqsUpTo(S, n - 1)
         IN  shorter \cup {Append(q, x) : q \in shorter, x \in S}

NetBehaviours ==
    [connect : {"ok", "fail"}, tls : {"ok", "fail"}, send : {"ok", "fail"},
     chunks : SeqsUpTo(ChunkBytes, MaxChunks), end : {"eof", "fail"}]

\* response += data over the recv loop.
RECURSIVE recv_all(_)
recv_all(chunks) ==
    IF Len(chunks) = 0 THEN <<>> ELSE <<Head(chunks)>> \o recv_all(Tail(chunks))

\* A handler that catches only the failure to connect.
Catches_ConnectOnly(e) == e = "connect failed"

\* `except Exception as e`: the exceptions the handler catches. Every failure
\* of connect, handshake, sendall and recv is an OSError, an Exception.
Catches(e) == TRUE

\* The try body: the exception it ends with ("" when it runs to the return),
\* the state it leaves the socket in, whether sendall was passed, and the
\* bytes received. sock.close() is the body's last statement before the return.
try_body(ssl, net) ==
    IF net.connect = "fail"
    THEN [exc |-> "connect failed", sock |-> "none", sent |-> FALSE, response |-> <<>>]
    ELSE IF ssl /\ net.tls = "fail"
    THEN [exc |-> "handshake failed", sock |-> "open", sent |-> FALSE, response |-> <<>>]
    ELSE IF net.send = "fail"
    THEN [exc |-> "send failed", sock |-> "open", sent |-> FALSE, response |-> <<>>]
    ELSE IF net.end = "fail"
    THEN [exc |-> "recv failed", sock |-> "open", sent |-> TRUE,
          response |-> recv_all(net.chunks)]
    ELSE [exc |-> "", sock |-> "closed", sent |-> TRUE,
          response |-> recv_all(net.chunks)]

\* raw_http_request(host, port, use_ssl, ...) as its caller sees it, the
\* network behaving as net: ret, the value returned; exc, the exception the
\* body ended with ("" when none); sock, the state the socket is left in;
\* raised, whether the exception left the function.
raw_http_request(host, port, ssl, net) ==
    LET b == try_body(ssl, net)
    IN  IF b.exc = ""
        THEN [ret |-> Decode(b.response), exc |-> "", sock |-> b.sock, raised |-> FALSE]
        ELSE IF Catches(b.exc)
        THEN [ret |-> <<"Error:", " ", b.exc>>, exc |-> b.exc, sock |-> b.sock,
              raised |-> FALSE]
        ELSE [ret |-> <<>>, exc |-> b.exc, sock |-> b.sock, raised |-> TRUE]

\* The bytes raw_http_request hands to sock.sendall, if it gets that far.
sendall(ssl, method, path, host, ua, headers, net) ==
    IF try_body(ssl, net).sent THEN request_data(method, path, host, ua, headers) ELSE <<>>

\* A test that also takes the empty response for an error.
IsErrorResponse_OrEmpty(response) ==
    response = <<>> \/ StartsWith(response, <<"Error:">>)

\* response.startswith("Error:")
IsErrorResponse(response) == StartsWith(response, <<"Error:">>)

\* ------------------------------------------------------------- LoadTester
NoResult == [ret |-> <<>>, exc |-> "", sock |-> "none", raised |-> FALSE]
NoCall == [state |-> "none"]

\* What a peer does to a request of the pool: it refuses the connection, fails
\* the handshake, resets on send or on recv, closes at once, answers, or
\* answers with a text that begins with "Error:".
PoolPeers ==
    {n \in NetBehaviours :
        /\ Len(n.chunks) <= 1
        /\ \A i \in 1..Len(n.chunks) : n.chunks[i] # "\\xff"
        /\ (n.connect = "fail" => n.tls = "ok" /\ n.send = "ok")
        /\ (n.tls = "fail" => n.send = "ok")
        /\ (n.connect = "fail" \/ n.tls = "fail" \/ n.send = "fail"
              => n.chunks = <<>> /\ n.end = "eof")}

\* LoadTester.__init__: the state of a constructed LoadTester, run() not called.
LoadTester(v, c, n, i, ssl) ==
    /\ variant = v
    /\ concurrency = c
    /\ total_requests = n
    /\ interval = i
    /\ use_ssl = ssl
    /\ queue = <<>>
    /\ unfinished = 0
    /\ lock = 0
    /\ success = 0
    /\ errors = 0
    /\ responses = <<>>
    /\ requests_total = 0
    /\ requests_failed = 0
    /\ runPc = "idle"
    /\ started = 0
    /\ reported = <<>>
    /\ pc = [w \in Workers |-> "unstarted"]
    /\ unit = [w \in Workers |-> 0]
    /\ result = [w \in Workers |-> NoResult]
    /\ tmp = [w \in Workers |-> 0]
    /\ anyOk = FALSE
    /\ recorded = 0
    /\ calls = 0
    /\ runs = 0

Init ==
    /\ \E v \in Variants, c \in -1..MaxConcurrency, n \in 0..MaxRequests,
          i \in {0, 1}, ssl \in BOOLEAN :
            /\ c * n <= MaxWork
            /\ (i > 0 \/ ssl) => n <= SmallRequests
            /\ LoadTester(v, c, n, i, ssl)
    /\ resolvable \in BOOLEAN
    /\ call = NoCall

\* resolve_hostname(host): the address, or None on socket.gaierror.
resolve_hostname(resolves) == IF resolves THEN "ip" ELSE "None"

\* run(), up to the queue loop: the banner and, in NewerVersionMain2, the
\* resolution of the host, on whose failure run() returns.
run_begin ==
    /\ runPc = "idle"
    /\ runs' = runs + 1
    /\ runPc' = IF variant = "v2" /\ resolve_hostname(resolvable) = "None"
                THEN "returned" ELSE "put"
    /\ UNCHANGED <<variant, concurrency, total_requests, interval, use_ssl, queue,
                   unfinished, lock, success, errors, responses, requests_total,
                   requests_failed, started, reported, pc, unit, result, tmp,
                   anyOk, call, recorded, calls, resolvable>>

\* One put too many.
PutAll_OneMore(q, n) == q \o [i \in 1..(n + 1) |-> 1]

\* for _ in range(self.total_requests): self.queue.put(1)
\* Each put appends the item and counts one unfinished task.
PutAll(q, n) == q \o [i \in 1..n |-> 1]

run_put ==
    /\ runPc = "put"
    /\ queue' = PutAll(queue, total_requests)
    /\ unfinished' = unfinished + (Len(queue') - Len(queue))
    /\ runPc' = "threads"
    /\ UNCHANGED <<variant, concurrency, total_requests, interval, use_ssl,
                   lock, success, errors, responses, requests_total,
                   requests_failed, started, reported, pc, unit, result, tmp,
                   anyOk, call,
                   recorded, calls, resolvable, runs>>

\* for _ in range(self.concurrency): one iteration, t.start() of one worker.
run_start_thread ==
    /\ runPc = "threads"
    /\ started < concurrency * runs
    /\ started' = started + 1
    /\ pc' = [pc EXCEPT ![started + 1] = "loop"]
    /\ UNCHANGED <<variant, concurrency, total_requests, interval, use_ssl, queue,
                   unfinished, lock, success, errors, responses, requests_total,
                   requests_failed, runPc, reported, unit, result, tmp, anyOk,
                   call,
                   recorded, calls, resolvable, runs>>

\* The thread loop is over: run() goes on to self.queue.join().
run_threads_started ==
    /\ runPc = "threads"
    /\ started >= concurrency * runs
    /\ runPc' = "join"
    /\ UNCHANGED <<variant, concurrency, total_requests, interval, use_ssl, queue,
                   unfinished, lock, success, errors, responses, requests_total,
                   requests_failed, started, reported, pc, unit, result, tmp,
                   anyOk, call,
                   recorded, calls, resolvable, runs>>

\* self.queue.join(): returns once unfinished_tasks is zero.
run_join ==
    /\ runPc = "join"
    /\ unfinished = 0
    /\ runPc' = "report"
    /\ UNCHANGED <<variant, concurrency, total_requests, interval, use_ssl, queue,
                   unfinished, lock, success, errors, responses, requests_total,
                   requests_failed, started, reported, pc, unit, result, tmp,
                   anyOk, call,
                   recorded, calls, resolvable, runs>>

\* The prints of the counts: self.success is read, then self.errors.
run_report ==
    /\ runPc = "report"
    /\ reported' = Append(reported, IF Len(reported) = 0 THEN success ELSE errors)
    /\ runPc' = IF Len(reported) = 0 THEN "report" ELSE "done"
    /\ UNCHANGED <<variant, concurrency, total_requests, interval, use_ssl, queue,
                   unfinished, lock, success, errors, responses, requests_total,
                   requests_failed, started, pc, unit, result, tmp, anyOk, call,
                   recorded, calls, resolvable, runs>>

\* ------------------------------------------------------ LoadTester.worker
\* Where a worker goes when get_nowait raises queue.Empty: main.py's bare
\* `except: break` leaves the loop; NewerVersionMain2's `except Exception`
\* clause of the loop body counts an error and its `finally` calls task_done.
OnEmpty(v) == IF v = "main" THEN "exit" ELSE "x_lock"

\* Where a worker goes when raw_http_request raises: main.py has no handler
\* around the call, NewerVersionMain2 has the `except Exception` clause.
OnRaise(v) == IF v = "main" THEN "crashed" ELSE "x_lock"

\* Queue.task_done(): one unfinished task less; ValueError when there is none.
task_done(u) ==
    IF u - 1 < 0 THEN [raised |-> TRUE, unfinished |-> u]
    ELSE [raised |-> FALSE, unfinished |-> u - 1]

\* self.responses after a success is recorded (NewerVersionMain2 only).
RecordSample(v, samples, response) ==
    IF v = "v2" THEN Append(samples, Prefix(response, SampleLen)) ELSE samples

\* The loop test: `if self.queue.empty(): break` / `while not self.queue.empty()`.
worker_empty(w) ==
    /\ pc[w] = "loop"
    /\ pc' = [pc EXCEPT ![w] = IF Len(queue) = 0 THEN "exit" ELSE "get"]
    /\ UNCHANGED <<variant, concurrency, total_requests, interval, use_ssl, queue,
                   unfinished, lock, success, errors, responses, requests_total,
                   requests_failed, runPc, started, reported, unit, result, tmp,
                   anyOk, call,
                   recorded, calls, resolvable, runs>>

\* An item is returned and the queue keeps it.
get_nowait_Peek(q) ==
    IF Len(q) = 0 THEN [raised |-> TRUE, item |-> 0, queue |-> q]
    ELSE [raised |-> FALSE, item |-> Head(q), queue |-> q]

\* Queue.get_nowait(): the first item, removed from the queue; queue.Empty
\* when there is none.
get_nowait(q) ==
    IF Len(q) = 0 THEN [raised |-> TRUE, item |-> 0, queue |-> q]
    ELSE [raised |-> FALSE, item |-> Head(q), queue |-> Tail(q)]

\* _ = self.queue.get_nowait()
worker_get_nowait(w) ==
    /\ pc[w] = "get"
    /\ LET g == get_nowait(queue)
       IN  /\ queue' = g.queue
           /\ unit' = [unit EXCEPT ![w] = g.item]
           /\ pc' = [pc EXCEPT ![w] = IF g.raised THEN OnEmpty(variant) ELSE "request"]
    /\ UNCHANGED <<variant, concurrency, total_requests, interval, use_ssl,
                   unfinished, lock, success, errors, responses, requests_total,
                   requests_failed, runPc, started, reported, result, tmp,
                   anyOk, call, recorded, calls, resolvable, runs>>

\* What the network can do to a request of the pool: when the name of the
\* host does not resolve, create_connection fails (socket.gaierror).
PeersOf(resolves) == {n \in PoolPeers : ~resolves => n.connect = "fail"}

\* response = raw_http_request(self.host, self.port, self.use_ssl, path=self.path)
worker_request(w) ==
    /\ pc[w] = "request"
    /\ \E net \in PeersOf(resolvable) :
          LET r == raw_http_request("host", 80, use_ssl, net)
          IN  /\ result' = [result EXCEPT ![w] = r]
              /\ anyOk' = (anyOk \/ r.exc = "")
              /\ pc' = [pc EXCEPT ![w] = IF r.raised THEN OnRaise(variant) ELSE "lock"]
    /\ calls' = calls + 1
    /\ UNCHANGED <<variant, concurrency, total_requests, interval, use_ssl, queue,
                   unfinished, lock, success, errors, responses, requests_total,
                   requests_failed, runPc, started, reported, unit, tmp, call,
                   recorded, resolvable, runs>>

\* The counter is read without waiting for the lock.
worker_lock_Unguarded(w) ==
    /\ pc[w] = "lock"
    /\ lock' = w
    /\ tmp' = [tmp EXCEPT ![w] = IF IsErrorResponse(result[w].ret) THEN errors ELSE success]
    /\ pc' = [pc EXCEPT ![w] = "write"]
    /\ UNCHANGED <<variant, concurrency, total_requests, interval, use_ssl, queue,
                   unfinished, success, errors, responses, requests_total,
                   requests_failed, runPc, started, reported, unit, result, anyOk,
                   call, recorded, calls, resolvable, runs>>

\* with self.lock: the lock is taken, and the counter of the branch is read
\* (the read of `self.errors += 1` or of `self.success += 1`).
worker_lock(w) ==
    /\ pc[w] = "lock"
    /\ lock = 0
    /\ lock' = w
    /\ tmp' = [tmp EXCEPT ![w] = IF IsErrorResponse(result[w].ret) THEN errors ELSE success]
    /\ pc' = [pc EXCEPT ![w] = "write"]
    /\ UNCHANGED <<variant, concurrency, total_requests, interval, use_ssl, queue,
                   unfinished, success, errors, responses, requests_total,
                   requests_failed, runPc, started, reported, unit, result, anyOk,
                   call,
                   recorded, calls, resolvable, runs>>

\* The write of the +=; in NewerVersionMain2 what follows it under the lock
\* (requests_failed.inc(), or requests_total.inc() and the append); and the
\* release of the lock at the end of the with block.
worker_write(w) ==
    /\ pc[w] = "write"
    /\ IF IsErrorResponse(result[w].ret)
       THEN /\ errors' = tmp[w] + 1
            /\ requests_failed' = IF variant = "v2" THEN requests_failed + 1 ELSE requests_failed
            /\ UNCHANGED <<success, requests_total, responses>>
       ELSE /\ success' = tmp[w] + 1
            /\ requests_total' = IF variant = "v2" THEN requests_total + 1 ELSE requests_total
            /\ responses' = RecordSample(variant, responses, result[w].ret)
            /\ UNCHANGED <<errors, requests_failed>>
    /\ lock' = 0
    /\ recorded' = recorded + 1
    /\ pc' = [pc EXCEPT ![w] = "task_done"]
    /\ UNCHANGED <<variant, concurrency, total_requests, interval, use_ssl, queue,
                   unfinished, runPc, started, reported, unit, result, tmp,
                   anyOk, call, calls, resolvable, runs>>

\* NewerVersionMain2's `except Exception:` clause: with self.lock, and the
\* read of `self.errors += 1`.
worker_except_lock(w) ==
    /\ pc[w] = "x_lock"
    /\ lock = 0
    /\ lock' = w
    /\ tmp' = [tmp EXCEPT ![w] = errors]
    /\ pc' = [pc EXCEPT ![w] = "x_write"]
    /\ UNCHANGED <<variant, concurrency, total_requests, interval, use_ssl, queue,
                   unfinished, success, errors, responses, requests_total,
                   requests_failed, runPc, started, reported, unit, result, anyOk,
                   call,
                   recorded, calls, resolvable, runs>>

\* The except clause: the write of the +=, requests_failed.inc(), and the
\* release of the lock at the end of the with block.
worker_except_write(w) ==
    /\ pc[w] = "x_write"
    /\ errors' = tmp[w] + 1
    /\ requests_failed' = requests_failed + 1
    /\ lock' = 0
    /\ recorded' = recorded + 1
    /\ pc' = [pc EXCEPT ![w] = "task_done"]
    /\ UNCHANGED <<variant, concurrency, total_requests, interval, use_ssl, queue,
                   unfinished, success, responses, requests_total, runPc, started,
                   reported, unit, result, tmp, anyOk, call, calls, resolvable,
                   runs>>

\* self.queue.task_done(): main.py's statement after the with block,
\* NewerVersionMain2's finally clause. A ValueError ends the thread. The
\* iteration's locals are dead from here on and are forgotten.
worker_task_done(w) ==
    /\ pc[w] = "task_done"
    /\ LET t == task_done(unfinished)
       IN  /\ unfinished' = t.unfinished
           /\ pc' = [pc EXCEPT ![w] = IF t.raised THEN "crashed"
                                      ELSE IF interval > 0 THEN "sleep" ELSE "loop"]
    /\ unit' = [unit EXCEPT ![w] = 0]
    /\ result' = [result EXCEPT ![w] = NoResult]
    /\ tmp' = [tmp EXCEPT ![w] = 0]
    /\ UNCHANGED <<variant, concurrency, total_requests, interval, use_ssl, queue,
                   lock, success, errors, responses, requests_total,
                   requests_failed, runPc, started, reported, anyOk, call,
                   recorded, calls, resolvable, runs>>

\* if self.interval > 0: time.sleep(self.interval)
worker_sleep(w) ==
    /\ pc[w] = "sleep"
    /\ pc' = [pc EXCEPT ![w] = "loop"]
    /\ UNCHANGED <<variant, concurrency, total_requests, interval, use_ssl, queue,
                   unfinished, lock, success, errors, responses, requests_total,
                   requests_failed, runPc, started, reported, unit, result, tmp,
                   anyOk, call,
                   recorded, calls, resolvable, runs>>

worker(w) ==
    \/ worker_empty(w)
    \/ worker_get_nowait(w)
    \/ worker_request(w)
    \/ worker_lock(w)
    \/ worker_write(w)
    \/ worker_except_lock(w)
    \/ worker_except_write(w)
    \/ worker_task_done(w)
    \/ worker_sleep(w)

run ==
    \/ run_begin
    \/ run_put
    \/ run_start_thread
    \/ run_threads_started
    \/ run_join
    \/ run_report

Next == run \/ \E w \in Workers : worker(w)

Spec == Init /\ [][Next]_vars

\* Threads are scheduled fairly, and every blocking call returns.
FairSpec == Spec /\ WF_vars(run) /\ \A w \in Workers : WF_vars(worker(w))

\* --------------------------------------------- one raw_http_request call
\* The arguments a caller may pass.
Hosts == {"h", "example.com"}
Methods == {"GET", "POST"}
Paths == {"/x", "/é"}
HeaderMaps ==
    {<<>>, << <<"Accept", "*/*">> >>, << <<"X-Test", "1">> >>,
     << <<"Accept", "*/*">>, <<"X-Test", "1">> >>,
     << <<"X-Test", "1">>, <<"Accept", "*/*">> >>}
\* The body the caller has for the request: none, or two bytes.
Bodies == {<<>>, <<"a", "b">>}

ReqInit ==
    /\ \E v \in Variants : LoadTester(v, 1, 0, 0, FALSE)
    /\ resolvable = TRUE
    /\ call = NoCall

\* A call raw_http_request(host, port, use_ssl, method, path, headers) runs
\* to its return. The function has no parameter that takes a body: the body
\* the caller has stays with the caller.
request_call ==
    /\ call.state = "none"
    /\ \E host \in Hosts, ssl \in BOOLEAN, method \in Methods, path \in Paths,
          headers \in HeaderMaps, ua \in get_random_user_agent(variant),
          net \in NetBehaviours, body \in Bodies :
            call' = [state |-> "returned", host |-> host, ssl |-> ssl,
                     method |-> method, path |-> path, headers |-> headers,
                     ua |-> ua, net |-> net, body |-> body,
                     result |-> raw_http_request(host, 80, ssl, net),
                     sent |-> sendall(ssl, method, path, host, ua, headers, net)]
    /\ UNCHANGED poolVars

\* The caller takes the returned value.
request_return ==
    /\ call.state = "returned"
    /\ call' = NoCall
    /\ UNCHANGED poolVars

ReqNext == request_call \/ request_return

ReqSpec == ReqInit /\ [][ReqNext]_vars

\* ------------------------------------------- run() called more than once
\* A LoadTester of one thread and at most one request per run.
RerunInit ==
    /\ \E v \in Variants, n \in 0..1, i \in {0, 1} :
            LoadTester(v, 1, n, i, FALSE)
    /\ resolvable \in BOOLEAN
    /\ call = NoCall

\* run() has returned and the caller calls tester.run() again on the same
\* object: nothing of the object is reset, what the last run printed is gone.
run_again ==
    /\ runPc \in {"done", "returned"}
    /\ runs < MaxRuns
    /\ concurrency * (runs + 1) <= MaxConcurrency
    /\ runPc' = "idle"
    /\ reported' = <<>>
    /\ UNCHANGED <<variant, concurrency, total_requests, interval, use_ssl, queue,
                   unfinished, lock, success, errors, responses, requests_total,
                   requests_failed, started, pc, unit, result, tmp, anyOk, call,
                   recorded, calls, resolvable, runs>>

RerunNext == Next \/ run_again

RerunSpec == RerunInit /\ [][RerunNext]_vars

\* ------------------------------------------------------------------ claims
\* A worker is inside raw_http_request or inside a section that counts.
Recording(w) == pc[w] \in {"request", "lock", "write", "x_lock", "x_write"}

\* A worker is past its dequeue, in the part of the iteration that executes a
\* request, counts and calls task_done.
PastDequeue(w) == pc[w] \in {"request", "lock", "write", "x_lock", "x_write", "task_done"}

\* C1: with concurrency >= 1, the counts run() reports after queue.join()
\* add up to total_requests.
C1_ReportedCountsAddUp ==
    (concurrency >= 1 /\ runPc = "done")
        => reported[1] + reported[2] = total_requests

\* C2: once run() has passed queue.join() and read the counters, no worker is
\* still executing a request or about to change a counter.
C2_AllRecordedBeforeReport ==
    (concurrency >= 1 /\ runPc = "done") => \A w \in Workers : ~Recording(w)

\* C3: with concurrency >= 1 and fair scheduling run() eventually returns
\* (with the counts, or at once when the host does not resolve), and when
\* every request failed the counts are errors == total_requests, success == 0.
C3_RunCompletesWithCounts ==
    /\ (concurrency >= 1) => <>(runPc \in {"done", "returned"})
    /\ []((concurrency >= 1 /\ runPc = "done" /\ ~anyOk)
            => reported = <<0, total_requests>>)

\* C4: a run with concurrency <= 0 is rejected before the queue is populated
\* or a worker is started, and never waits in queue.join().
C4_NonPositiveConcurrencyRejected ==
    concurrency <= 0
        => /\ queue = <<>>
           /\ unfinished = 0
           /\ started = 0
           /\ runPc \notin {"threads", "join", "report", "done"}

\* C5: with concurrency > total_requests, a worker whose dequeue found no unit
\* executes no request, counts nothing and does not call task_done: whoever is
\* past the dequeue holds a unit.
C5_ExcessWorkersOnlyExit ==
    concurrency > total_requests
        => \A w \in Workers : PastDequeue(w) => unit[w] = 1

\* C6: with total_requests = 0 and concurrency >= 1 no worker executes a
\* request, the counters stay 0, queue.join() does not block and run()
\* reports 0 and 0.
C6_ZeroRequests ==
    (total_requests = 0 /\ concurrency >= 1)
        => /\ success = 0 /\ errors = 0
           /\ \A w \in Workers : pc[w] \in {"unstarted", "loop", "exit"}
           /\ runPc = "join" => unfinished = 0
           /\ runPc = "done" => reported = <<0, 0>>

C6_Witness ==
    /\ total_requests = 0 /\ concurrency >= 1
    /\ runPc = "done"
    /\ \E w \in Workers : pc[w] = "exit"

\* The header lines `k: v` of the caller's headers, each ended by CRLF.
RECURSIVE CallerHeaderBlock(_)
CallerHeaderBlock(headers) ==
    IF Len(headers) = 0 THEN <<>>
    ELSE <<Head(headers)[1], ": ", Head(headers)[2], CRLF>>
         \o CallerHeaderBlock(Tail(headers))

\* C7: the bytes sent are the start line, Host, one User-Agent of the pool,
\* the caller's headers in order, Connection: close, each ended by CRLF, and
\* then the blank line: the request ends with CRLF CRLF.
C7_RequestBytes ==
    (call.state = "returned" /\ call.sent # <<>>)
        => /\ call.ua \in get_random_user_agent(variant)
           /\ call.sent =
                Encode(<<call.method, " ", call.path, " ", "HTTP/1.1", CRLF,
                         "Host: ", call.host, CRLF,
                         "User-Agent: ", call.ua, CRLF>>
                       \o CallerHeaderBlock(call.headers)
                       \o <<"Connection: close", CRLF, CRLF>>)

\* C8: raw_http_request never raises: a request that failed at connect,
\* handshake, send or recv returns a text that begins with "Error:", the
\* worker counts it as exactly one error and goes on to the end of its
\* iteration, and no worker ends inside the request or the counting.
C8_FailureIsCountedOnce ==
    [][\A w \in Workers :
          /\ (pc[w] = "request" /\ pc'[w] # "request")
                => /\ ~result'[w].raised
                   /\ pc'[w] = "lock"
                   /\ result'[w].exc # "" => IsErrorResponse(result'[w].ret)
          /\ (pc[w] = "write" /\ pc'[w] # "write" /\ result[w].exc # "")
                => /\ errors' = errors + 1
                   /\ success' = success
                   /\ pc'[w] = "task_done"
          /\ (pc'[w] = "crashed" /\ pc[w] # "crashed") => pc[w] = "task_done"
      ]_vars

C8_Witness ==
    \E w \in Workers :
        /\ pc[w] = "task_done"
        /\ result[w].exc = "handshake failed"
        /\ errors = 1 /\ success = 1

\* C9: whenever raw_http_request returns after create_connection succeeded,
\* the socket it opened has been closed.
C9_SocketClosedOnReturn ==
    (call.state = "returned" /\ call.net.connect = "ok")
        => call.result.sock = "closed"

\* C10: self.responses never holds more than 3 entries.
C10_SampleBufferBounded == Len(responses) <= PrintedSamples

\* C11: when run() has returned from queue.join() and prints its results,
\* every one of the `concurrency` worker threads has left its loop.
C11_AllWorkersExitedAtReport ==
    (concurrency >= 1 /\ runPc \in {"report", "done"})
        => \A w \in 1..concurrency : pc[w] = "exit"

\* C12: the increments being a read and a later write, no increment of
\* success or errors is lost under any interleaving: whenever no worker holds
\* the lock, success + errors is the number of completed record sections.
C12_NoLostIncrement == lock = 0 => success + errors = recorded

C12_Witness ==
    /\ lock = 0
    /\ recorded = 2 /\ success = 1 /\ errors = 1
    /\ \E w1, w2 \in Workers : w1 # w2 /\ pc[w1] = "lock" /\ pc[w2] = "lock"

\* C13: when the host does not resolve (and concurrency >= 1), the run never
\* reaches Running: no unit is queued, no worker thread is started, no request
\* is executed and no failure is counted.
C13_UnresolvableHostRejected ==
    (~resolvable /\ concurrency >= 1)
        => /\ queue = <<>> /\ unfinished = 0
           /\ started = 0
           /\ calls = 0
           /\ errors = 0 /\ requests_failed = 0
           /\ runPc \in {"idle", "returned"}

\* C14: a second run() on the same LoadTester reports counts that add up to
\* total_requests, the outcomes of that run alone.
C14_SecondRunReportsOwnCounts ==
    (runs = 2 /\ runPc = "done")
        => reported[1] + reported[2] = total_requests

\* The peer accepts the connection (and the handshake) and closes at once:
\* the first recv returns b"".
ClosesAtOnce(net) ==
    /\ net.connect = "ok" /\ net.tls = "ok" /\ net.send = "ok"
    /\ net.chunks = <<>> /\ net.end = "eof"

\* What raw_http_request returned to worker w is the empty response.
GotEmptyResponse(w) ==
    result[w].exc = "" /\ result[w].ret = <<>> /\ result[w].sock = "closed"

\* C15: in both variants, from a peer that accepts and closes at once
\* raw_http_request returns the empty response without exception, and the
\* worker counts it as a success: success += 1, errors unchanged.
C15_EmptyResponseIsSuccess ==
    /\ \A net \in NetBehaviours, ssl \in BOOLEAN :
          ClosesAtOnce(net)
              => raw_http_request("host", 80, ssl, net)
                   = [ret |-> <<>>, exc |-> "", sock |-> "closed", raised |-> FALSE]
    /\ [][\A w \in Workers :
            /\ (pc[w] = "request" /\ pc'[w] # "request" /\ GotEmptyResponse(w)')
                  => pc'[w] = "lock"
            /\ (pc[w] = "lock" /\ GotEmptyResponse(w)) => pc'[w] \in {"lock", "write"}
            /\ (pc[w] = "write" /\ pc'[w] # "write" /\ GotEmptyResponse(w))
                  => /\ success' = success + 1
                     /\ errors' = errors
                     /\ pc'[w] = "task_done"
        ]_vars

C15_Witness ==
    \E w \in Workers :
        /\ pc[w] = "task_done"
        /\ GotEmptyResponse(w)
        /\ success = 1 /\ errors = 0

\* The bytes hold a header line `Content-Length: n` before position last.
HasContentLength(bytes, n, last) ==
    \E i \in 1..Len(bytes) :
        /\ i + 2 <= last
        /\ bytes[i] = "Content-Length: "
        /\ bytes[i + 1] = ToString(n)
        /\ bytes[i + 2] = CRLF

\* The bytes hold some Content-Length header.
MentionsContentLength(bytes) ==
    \E i \in 1..Len(bytes) : bytes[i] \in {"Content-Length: ", "Content-Length"}

\* C16: for a body of length L the bytes sent hold a `Content-Length: L`
\* header line before the end of the headers, and the body after it, at the
\* end; without a body they hold no Content-Length header.
C16_ContentLengthForBody ==
    (call.state = "returned" /\ call.sent # <<>>)
        => IF call.body = <<>>
           THEN ~MentionsContentLength(call.sent)
           ELSE LET L == Len(call.body)
                    n == Len(call.sent)
                IN  /\ n > L
                    /\ SubSeq(call.sent, n - L + 1, n) = call.body
                    /\ HasContentLength(call.sent, L, n - L)

\* The workers that are inside raw_http_request.
Executing == {w \in Workers : pc[w] = "request"}

\* C17: for concurrency >= 1, the queue holds exactly total_requests units
\* before the first worker starts and nothing is put afterwards; a worker
\* executes a request only for a unit it dequeued, every unit is in the queue,
\* in execution or executed, never two of these; none is left in the queue
\* when run() reports; and when all workers have ended, raw_http_request has
\* been executed exactly total_requests times.
C17_EachUnitExecutedOnce ==
    concurrency >= 1
        => /\ runPc \in {"idle", "put", "returned"} => (started = 0 /\ calls = 0)
           /\ (runPc = "threads" /\ started = 0) => Len(queue) = total_requests
           /\ \A w \in Workers : pc[w] = "request" => unit[w] = 1
           /\ runPc \in {"threads", "join", "report", "done"}
                => Len(queue) + Cardinality(Executing) + calls = total_requests
           /\ runPc \in {"report", "done"} => queue = <<>>
           /\ (runPc \in {"join", "report", "done"}
                /\ \A w \in 1..concurrency : pc[w] \in {"exit", "crashed"})
                => calls = total_requests

C17_Witness ==
    /\ concurrency = 2 /\ total_requests = 3
    /\ runPc = "done"
    /\ \A w \in 1..concurrency : pc[w] = "exit"
    /\ calls = 3

\* C18: no worker thread ends by an exception: task_done() is called only by
\* a worker that dequeued a unit, and never raises ValueError.
C18_NoAbnormalTermination ==
    \A w \in Workers :
        /\ pc[w] # "crashed"
        /\ pc[w] = "task_done" => unit[w] = 1

\* C19: a worker adds one to errors exactly when its raw_http_request ended
\* with an exception, and one to success exactly when it ended without,
\* whatever the response text is.
C19_ClassificationFaithful ==
    [][\A w \in Workers :
          /\ (pc[w] = "write" /\ pc'[w] = "task_done")
                => /\ errors' = errors + 1 <=> result[w].exc # ""
                   /\ success' = success + 1 <=> result[w].exc = ""
          /\ (pc[w] = "x_write" /\ pc'[w] = "task_done")
                => result[w].exc # ""
      ]_vars

====
